---- MODULE Spec2Model ----
(***************************************************************************)
(* Model of keyvalue/javascript/run.py: the quickstart setup script.       *)
(*                                                                         *)
(* Python str values are sequences of one-character strings, so that       *)
(* split, strip, lower and the `in` test are computed as Python computes   *)
(* them.  The Python object None is the one-element sequence None below,   *)
(* whose element is not a character.                                       *)
(***************************************************************************)
EXTENDS Integers, Sequences, FiniteSets, TLC

\* ------------------------------------------------------------------ bounds
\* Largest number of lines without a status marker that the status query
\* prints before the rest of its output.
MaxPreamble == 1

\* ------------------------------------------------------------ Python values
None == <<"<None>">>

Whitespace == {" ", "\t", "\n", "\r", "\f"}

UpperChars == <<"A","B","C","D","E","F","G","H","I","J","K","L","M",
                "N","O","P","Q","R","S","T","U","V","W","X","Y","Z">>
LowerChars == <<"a","b","c","d","e","f","g","h","i","j","k","l","m",
                "n","o","p","q","r","s","t","u","v","w","x","y","z">>

\* str.lower(), one character
LowerChar(c) ==
    IF \E i \in 1..Len(UpperChars) : UpperChars[i] = c
    THEN LowerChars[CHOOSE i \in 1..Len(UpperChars) : UpperChars[i] = c]
    ELSE c

\* str.lower()
Lower(s) == [i \in 1..Len(s) |-> LowerChar(s[i])]

RECURSIVE LStrip(_)
LStrip(s) == IF s = <<>> \/ Head(s) \notin Whitespace THEN s ELSE LStrip(Tail(s))

RECURSIVE RStrip(_)
RStrip(s) ==
    IF s = <<>> \/ s[Len(s)] \notin Whitespace THEN s
    ELSE RStrip(SubSeq(s, 1, Len(s) - 1))

\* str.strip()
Strip(s) == RStrip(LStrip(s))

\* str.find(sub) + 1: the first position where sub occurs in s, 0 when it
\* does not occur
Find(s, sub) ==
    LET Occurs(i) == SubSeq(s, i, i + Len(sub) - 1) = sub
        Starts == {i \in 1..(Len(s) - Len(sub) + 1) : Occurs(i)}
    IN  IF Starts = {} THEN 0
        ELSE CHOOSE i \in Starts : \A j \in Starts : i <= j

\* sub in s
Contains(s, sub) == Find(s, sub) # 0

\* s.split(sep), for a non-empty separator
RECURSIVE Split(_, _)
Split(s, sep) ==
    LET i == Find(s, sep)
    IN  IF i = 0 THEN <<s>>
        ELSE <<SubSeq(s, 1, i - 1)>> \o Split(SubSeq(s, i + Len(sep), Len(s)), sep)

\* truth value of a str-or-None in a condition
Truthy(v) == v # None /\ v # <<>>

\* {v} inside an f-string
FormatUnknown(v) == IF v = None THEN <<"u","n","k","n","o","w","n">> ELSE v
Format(v) == IF v = None THEN <<"N","o","n","e">> ELSE v

\* ----------------------------------------------------------------- literals
StatusMarker == <<"S","t","a","t","u","s",":">>
Newline      == <<"\n">>
ready        == <<"r","e","a","d","y">>
available    == <<"a","v","a","i","l","a","b","l","e">>
appid_name   == <<"o","r","d","e","r","-","a","p","p">>
env_name     == <<"d","i","a","g","r","i","d","-","v","e","n","v">>

\* ------------------------------------------------------ check_js_installed
\* What check_js_installed does with the tools that are installed: "exit"
\* is error(spinner, NODEJS_INSTRUCTIONS), "ok" the return to the caller.
check_js_installed(tools) ==
    LET node_check == IF "node" \in tools THEN <<"v">> ELSE None
        npm_check  == IF "npm" \in tools THEN <<"v">> ELSE None
    IN  IF node_check = None \/ npm_check = None THEN "exit" ELSE "ok"

\* ------------------------------------------------------------- run_command
\* The value run_command returns when check is False.
run_command(returncode, stdout) ==
    IF returncode # 0 THEN None ELSE Strip(stdout)

\* ------------------------------------------------------- check_appid_status
max_attempts == 8

\* the while condition
LoopGuardStrict(a) == a < max_attempts
LoopGuardLoose(a) == a <= max_attempts + 1
LoopGuard(a) == a <= max_attempts

\* attempt += 1
NextAttemptSkips(a) == a + 2
NextAttempt(a) == a + 1

\* The for loop over status_lines: the status of the first line that holds
\* the marker, None when no line holds it.
RECURSIVE ScanLinesLast(_)
ScanLinesLast(status_lines) ==
    IF status_lines = <<>> THEN None
    ELSE LET later == ScanLinesLast(Tail(status_lines))
         IN  IF later # None THEN later
             ELSE IF Contains(Head(status_lines), StatusMarker)
                  THEN Strip(Split(Head(status_lines), StatusMarker)[2])
                  ELSE None
RECURSIVE ScanLines(_)
ScanLines(status_lines) ==
    IF status_lines = <<>> THEN None
    ELSE IF Contains(Head(status_lines), StatusMarker)
         THEN Strip(Split(Head(status_lines), StatusMarker)[2])
         ELSE ScanLines(Tail(status_lines))

ParseStatus(status_output) == ScanLines(Split(status_output, Newline))

\* last_status after the for loop: assigned only where a status line was
\* found
RememberAlways(last, parsed) == parsed
Remember(last, parsed) == IF parsed # None THEN parsed ELSE last

\* the condition of the early return
IsReadyCaseSensitive(status) ==
    Truthy(status) /\ (status = ready \/ status = available)
IsReadyWordOnly(status) == Truthy(status) /\ Lower(status) = ready
IsReadyAnyStatus(status) == Truthy(status)
IsReady(status) ==
    Truthy(status) /\ (Lower(status) = ready \/ Lower(status) = available)

\* ----------------------------------------------------------------- inputs
\* What `diagrid appid get` can answer.  Each case carries the outcome an
\* observer reads off the answer: kind is "ready" (the first status line
\* holds a ready value), "notready" (it holds another value), "noline" (no
\* line holds the marker) or "fail" (non-zero exit), and value is the text
\* of that first status line's value.
SP == <<" ">>
InfoLine == <<"I","D",":"," ","x">>

StatusCase(k, v, text) == [kind |-> k, value |-> v, returncode |-> 0, stdout |-> text]

Bodies ==
    { StatusCase("ready", <<"R","e","a","d","y">>,
                 StatusMarker \o SP \o <<"R","e","a","d","y">>),
      StatusCase("ready", ready, StatusMarker \o ready \o Newline),
      StatusCase("ready", <<"R","E","A","D","Y">>,
                 <<"A","p","p"," ">> \o StatusMarker \o SP \o <<"R","E","A","D","Y">>),
      StatusCase("ready", available,
                 SP \o SP \o StatusMarker \o <<" ", "\t">> \o available \o SP \o Newline \o InfoLine),
      StatusCase("ready", <<"A","v","a","i","l","a","b","l","e">>,
                 StatusMarker \o SP \o <<"A","v","a","i","l","a","b","l","e">>
                     \o SP \o StatusMarker \o SP \o <<"x">>),
      StatusCase("notready", <<"p","e","n","d","i","n","g">>,
                 StatusMarker \o SP \o <<"p","e","n","d","i","n","g">>),
      StatusCase("notready", <<"f","a","i","l","e","d">>,
                 StatusMarker \o SP \o <<"f","a","i","l","e","d">> \o Newline \o InfoLine),
      StatusCase("notready", <<"e","r","r","o","r">>,
                 StatusMarker \o <<"e","r","r","o","r">>),
      StatusCase("notready", <<>>, StatusMarker \o SP),
      StatusCase("notready", <<"s","t","a","r","t","i","n","g">>,
                 StatusMarker \o SP \o <<"s","t","a","r","t","i","n","g">> \o Newline
                     \o StatusMarker \o SP \o <<"R","e","a","d","y">>),
      StatusCase("noline", None, <<>>),
      StatusCase("noline", None, InfoLine \o Newline),
      StatusCase("noline", None, <<"s","t","a","t","u","s",":"," ">> \o ready) }

RECURSIVE Preamble(_)
Preamble(n) == IF n = 0 THEN <<>> ELSE InfoLine \o Newline \o Preamble(n - 1)

QueryCases ==
    { [b EXCEPT !.stdout = Preamble(n) \o b.stdout] : b \in Bodies, n \in 0..MaxPreamble }
    \cup { [kind |-> "fail", value |-> None, returncode |-> 1, stdout |-> <<>>] }

P1 == <<"p","1">>
P2 == <<"p","2">>
CustomConfig == <<"c",".","y","a","m","l">>

\* values of QUICKSTART_PROJECT_NAME (None: not set)
EnvNames == {None, P1}
\* values of --project-name and of --config-file (None: flag not given)
ProjectFlags == {None, P1, P2}
ConfigFlags == {None, CustomConfig}

\* f"dev-{prj_name}.yaml"
ConfigFileName(prj) == <<"d","e","v","-">> \o Format(prj) \o <<".","y","a","m","l">>

\* argparse: the flag's value, the default when the flag is not given
ArgValue(flag, default) == IF flag = None THEN default ELSE flag

\* ------------------------------------------------------------------- state
VARIABLES
    pc,              \* position of main
    exit_code,       \* exit status of the process, NoExit while it runs
    failure,         \* what ended the run
    environ_name,    \* os.environ['QUICKSTART_PROJECT_NAME']
    environ_config,  \* os.environ['CONFIG_FILE']
    argv_project,    \* --project-name
    argv_config,     \* --config-file
    prj_name, project_name, config_file,   \* locals of main
    files,           \* paths at which a regular file exists
    venv_exists,     \* what os.path.exists(env_name) answered
    installed,       \* which of node and npm are installed
    attempt, status, last_status,          \* locals of check_appid_status
    reported,        \* the status interpolated in the timeout message
    log,             \* external calls made so far, in order
    seen,            \* kinds of the answers the status query gave so far
    lastValue,       \* value of the last answer that had a status line
    lastKind         \* kind of the last answer, "none" before the first

vars == <<pc, exit_code, failure, environ_name, environ_config, argv_project,
          argv_config, prj_name, project_name, config_file, files, venv_exists,
          installed, attempt, status, last_status, reported, log, seen, lastValue,
          lastKind>>

NoExit == -1

mainVars == <<environ_config, prj_name, project_name, config_file>>
envVars  == <<environ_name, argv_project, argv_config, installed>>
pollVars == <<attempt, status, last_status, reported, seen, lastValue, lastKind>>

\* one external call: what was run, its argument, and how it ended
\* (0: success, otherwise the non-zero exit or the raised error)
Call(cmd, arg, returncode) == [cmd |-> cmd, arg |-> arg, returncode |-> returncode]

\* exit status of an interpreter that ends on an uncaught exception
UncaughtExitCode == 1

\* sys.exit(code)
SysExitZero(code, why) ==
    /\ pc' = "exited"
    /\ exit_code' = 0
    /\ failure' = why
SysExit(code, why) ==
    /\ pc' = "exited"
    /\ exit_code' = code
    /\ failure' = why

Init ==
    /\ pc = "main"
    /\ exit_code = NoExit
    /\ failure = "none"
    /\ environ_name \in EnvNames
    /\ environ_config = None
    /\ argv_project \in ProjectFlags
    /\ argv_config \in ConfigFlags
    /\ prj_name = None /\ project_name = None /\ config_file = None
    /\ files \in SUBSET {ConfigFileName(environ_name), CustomConfig}
    /\ venv_exists = FALSE
    /\ installed \in SUBSET {"node", "npm"}
    /\ attempt = 1 /\ status = None /\ last_status = None
    /\ reported = None
    /\ log = <<>>
    /\ seen = {}
    /\ lastValue = None
    /\ lastKind = "none"

\* -------------------------------------------------------------------- main
\* A one-shot command run with check=True inside try/except
\* CalledProcessError: on a non-zero exit the handler prints and calls
\* sys.exit(1).
CheckedGoesOn(cmd, arg, next) ==
    \E returncode \in {0, 1} :
        /\ log' = Append(log, Call(cmd, arg, returncode))
        /\ pc' = next
        /\ UNCHANGED <<exit_code, failure>>
Checked(cmd, arg, next) ==
    \E returncode \in {0, 1} :
        /\ log' = Append(log, Call(cmd, arg, returncode))
        /\ IF returncode = 0
           THEN pc' = next /\ UNCHANGED <<exit_code, failure>>
           ELSE SysExit(1, "CalledProcessError")

\* A one-shot command run with check=True outside any try: on a non-zero
\* exit CalledProcessError leaves main uncaught.
Unchecked(cmd, arg, next) ==
    \E returncode \in {0, 1} :
        /\ log' = Append(log, Call(cmd, arg, returncode))
        /\ IF returncode = 0
           THEN pc' = next /\ UNCHANGED <<exit_code, failure>>
           ELSE SysExit(UncaughtExitCode, "CalledProcessError")

\* os.path.isfile(path)
IsFileNever(path, fs) == FALSE
IsFile(path, fs) == path \in fs

\* main up to the first step: environment, CONFIG_FILE and the arguments
MainStart ==
    /\ pc = "main"
    /\ prj_name' = environ_name
    /\ environ_config' = ConfigFileName(environ_name)
    /\ project_name' = ArgValue(argv_project, environ_name)
    /\ config_file' = ArgValue(argv_config, ConfigFileName(environ_name))
    /\ pc' = "create_project"
    /\ UNCHANGED <<exit_code, failure, envVars, files, venv_exists, pollVars, log>>

CreateProject ==
    /\ pc = "create_project"
    /\ Checked("diagrid project create", prj_name, "set_default_project")
    /\ UNCHANGED <<mainVars, envVars, files, venv_exists, pollVars>>

SetDefaultProject ==
    /\ pc = "set_default_project"
    /\ Checked("diagrid project use", prj_name, "create_appid")
    /\ UNCHANGED <<mainVars, envVars, files, venv_exists, pollVars>>

CreateAppid ==
    /\ pc = "create_appid"
    /\ Checked("diagrid appid create", prj_name, "poll_query")
    /\ UNCHANGED <<mainVars, envVars, files, venv_exists, pollVars>>

\* One pass of the loop body up to the early return: query, parse, compare.
\* A failed query makes status_output None, and None.split raises
\* AttributeError, which nothing catches.
PollQuery ==
    /\ pc = "poll_query"
    /\ LoopGuard(attempt)
    /\ \E q \in QueryCases :
         LET status_output == run_command(q.returncode, q.stdout)
             parsed == ParseStatus(status_output)
         IN  /\ log' = Append(log, Call("diagrid appid get", project_name, q.returncode))
             /\ seen' = seen \cup {q.kind}
             /\ lastValue' = IF q.kind \in {"ready", "notready"} THEN q.value ELSE lastValue
             /\ lastKind' = q.kind
             /\ IF status_output = None
                THEN /\ SysExit(UncaughtExitCode, "AttributeError")
                     /\ UNCHANGED <<status, last_status>>
                ELSE /\ status' = parsed
                     /\ last_status' = Remember(last_status, parsed)
                     /\ pc' = IF IsReady(parsed) THEN "config_file" ELSE "poll_sleep"
                     /\ UNCHANGED <<exit_code, failure>>
    /\ UNCHANGED <<mainVars, envVars, files, venv_exists, attempt, reported>>

\* time.sleep(10); attempt += 1
PollSleep ==
    /\ pc = "poll_sleep"
    /\ log' = Append(log, Call("time.sleep", None, 0))
    /\ attempt' = NextAttempt(attempt)
    /\ pc' = "poll_query"
    /\ UNCHANGED <<exit_code, failure, mainVars, envVars, files, venv_exists,
                   status, last_status, reported, seen, lastValue, lastKind>>

\* the loop ran out: spinner.fail with last_status, sys.exit(1)
PollTimeout ==
    /\ pc = "poll_query"
    /\ ~LoopGuard(attempt)
    /\ reported' = Format(last_status)
    /\ SysExit(1, "timeout")
    /\ UNCHANGED <<mainVars, envVars, files, venv_exists, attempt, status,
                   last_status, log, seen, lastValue, lastKind>>

\* the removal of an existing config file
ConfigFile ==
    /\ pc = "config_file"
    /\ IF IsFile(config_file, files)
       THEN \E removed \in BOOLEAN :
              /\ log' = Append(log, Call("os.remove", config_file, IF removed THEN 0 ELSE 1))
              /\ IF removed
                 THEN /\ files' = files \ {config_file}
                      /\ pc' = "scaffold"
                      /\ UNCHANGED <<exit_code, failure>>
                 ELSE /\ SysExit(1, "remove")
                      /\ UNCHANGED files
       ELSE /\ pc' = "scaffold"
            /\ UNCHANGED <<exit_code, failure, files, log>>
    /\ UNCHANGED <<mainVars, envVars, venv_exists, pollVars>>

\* scaffold_and_update_config, command by command
Scaffold ==
    /\ pc = "scaffold"
    /\ \E exists \in BOOLEAN :
         /\ Unchecked("diagrid dev scaffold", None,
                      IF exists THEN "rm_venv" ELSE "create_venv")
         /\ venv_exists' = IF pc' = "exited" THEN venv_exists ELSE exists
    /\ UNCHANGED <<mainVars, envVars, files, pollVars>>

RemoveVenv ==
    /\ pc = "rm_venv"
    /\ Unchecked("rm -rf", env_name, "create_venv")
    /\ venv_exists' = IF pc' = "create_venv" THEN FALSE ELSE venv_exists
    /\ UNCHANGED <<mainVars, envVars, files, pollVars>>

CreateVenv ==
    /\ pc = "create_venv"
    /\ Unchecked("python3 -m venv", env_name, "pip_install")
    /\ venv_exists' = IF pc' = "pip_install" THEN TRUE ELSE venv_exists
    /\ UNCHANGED <<mainVars, envVars, files, pollVars>>

PipInstall ==
    /\ pc = "pip_install"
    /\ Unchecked("pip install pyyaml", env_name, "scaffold_py")
    /\ UNCHANGED <<mainVars, envVars, files, venv_exists, pollVars>>

\* the companion script; when it succeeds main returns and the process
\* ends with status 0
RunScaffoldPy ==
    /\ pc = "scaffold_py"
    /\ \E returncode \in {0, 1} :
         /\ log' = Append(log, Call("python scaffold.py", environ_config, returncode))
         /\ IF returncode = 0
            THEN pc' = "done" /\ exit_code' = 0 /\ UNCHANGED failure
            ELSE SysExit(UncaughtExitCode, "CalledProcessError")
    /\ UNCHANGED <<mainVars, envVars, files, venv_exists, pollVars>>

Next ==
    \/ MainStart
    \/ CreateProject
    \/ SetDefaultProject
    \/ CreateAppid
    \/ PollQuery
    \/ PollSleep
    \/ PollTimeout
    \/ ConfigFile
    \/ Scaffold
    \/ RemoveVenv
    \/ CreateVenv
    \/ PipInstall
    \/ RunScaffoldPy

Spec == Init /\ [][Next]_vars

\* The runs of the script with QUICKSTART_PROJECT_NAME set or not, no flag
\* on the command line and both tools installed: the poller sees every
\* sequence of answers in them.
PollInit ==
    /\ Init
    /\ argv_project = None
    /\ argv_config = None
    /\ installed = {"node", "npm"}

PollSpec == PollInit /\ [][Next]_vars

\* ------------------------------------------------------------- observations
RECURSIVE Count(_, _)
Count(l, cmd) ==
    IF l = <<>> THEN 0
    ELSE (IF Head(l).cmd = cmd THEN 1 ELSE 0) + Count(Tail(l), cmd)

Queries == Count(log, "diagrid appid get")
Delays  == Count(log, "time.sleep")

TimedOut == pc = "exited" /\ failure = "timeout"
\* check_appid_status has returned to main
PollReturned == pc \in {"config_file", "scaffold", "rm_venv", "create_venv",
                        "pip_install", "scaffold_py", "done"}
                \/ (pc = "exited" /\ failure \in {"remove", "CalledProcessError"}
                    /\ Queries > 0)

TypeOK ==
    /\ attempt \in 1..(max_attempts + 1)
    /\ exit_code \in {NoExit, 0, 1}

\* ------------------------------------------------------------------ claims
InPoll == pc \in {"poll_query", "poll_sleep"} \/ TimedOut
Aborted == pc = "exited" /\ failure = "AttributeError"

pending == <<"p","e","n","d","i","n","g">>
failed  == <<"f","a","i","l","e","d">>
ReadyExamples ==
    { ready, <<"R","e","a","d","y">>, <<"R","E","A","D","Y">>,
      available, <<"A","v","a","i","l","a","b","l","e">> }

\* C1: when every answer so far held a not-ready status, the poll has not
\* returned and has not been aborted, it has made at most 8 queries, and
\* when it signals the timeout it has made exactly 8 and reports the value
\* of the last answer that had a status line.
C1_NotReadyTimesOutAfterEight ==
    (seen = {"notready"}) =>
        /\ Queries <= 8
        /\ ~PollReturned
        /\ pc = "exited" => TimedOut
        /\ TimedOut => (Queries = 8 /\ reported = lastValue)

C1_Witness ==
    TimedOut /\ seen = {"notready"} /\ Queries = 8 /\ reported = failed

\* C2: a status parsed on attempt k that is one of "ready", "Ready",
\* "READY", "available", "Available" makes the poll return on that attempt,
\* whatever the earlier attempts saw.
C2_ReadyAnyCaseSucceeds ==
    (Queries > 0 /\ status \in ReadyExamples) =>
        (PollReturned /\ Queries = attempt)

C2_Witness ==
    /\ PollReturned /\ status = <<"R","E","A","D","Y">> /\ attempt = 3
    /\ seen = {"notready", "noline", "ready"}

\* C3: when the first ready answer is the k-th and the earlier ones were
\* not ready, the poll has returned after exactly k queries and k-1 delays,
\* and no query and no delay follows.
C3_StopsAtFirstReady ==
    /\ []((("ready" \in seen) /\ seen \subseteq {"ready", "notready"}) =>
            (PollReturned /\ Queries = attempt /\ Delays = Queries - 1))
    /\ [][("ready" \in seen) => (Queries' = Queries /\ Delays' = Delays)]_vars

C3_Witness ==
    /\ seen = {"ready", "notready"} /\ PollReturned
    /\ Queries = 3 /\ Delays = 2 /\ pc = "done"

\* C4: the poll returns only on a ready answer; while every answer is an
\* output without a ready status (another value, an empty value, no status
\* line) it does not return, and it ends only by the timeout, after exactly
\* max_attempts queries.
C4_OnlyReadySucceeds ==
    /\ PollReturned => ("ready" \in seen /\ Lower(status) \in {ready, available})
    /\ (Queries > 0 /\ seen \subseteq {"notready", "noline"}) =>
          /\ ~PollReturned
          /\ pc = "exited" => (TimedOut /\ Queries = max_attempts)

C4_Witness ==
    /\ TimedOut /\ seen = {"notready", "noline"} /\ Queries = max_attempts
    /\ status = <<>> /\ last_status = <<>>

\* C5: a failed status query never aborts the poll: after it the poll is
\* still looping, or has timed out, or has returned.
C5_FailedQueryDoesNotAbort ==
    ("fail" \in seen) => (pc \in {"poll_query", "poll_sleep"} \/ TimedOut \/ PollReturned)

Terminated == pc \in {"done", "exited"}
SomeCallFailed == \E i \in 1..Len(log) : log[i].returncode # 0
PollRanOut == Queries = max_attempts /\ Delays = max_attempts /\ "ready" \notin seen
Ran(cmd) == \E i \in 1..Len(log) : log[i].cmd = cmd
IndexOf(cmd) == CHOOSE i \in 1..Len(log) : log[i].cmd = cmd
OneShots == {"diagrid project create", "diagrid project use", "diagrid appid create",
             "diagrid dev scaffold", "python3 -m venv", "pip install pyyaml",
             "python scaffold.py"}

\* C7: the exit status is 0 exactly when main ran to its end, which takes
\* every command to succeed and the poll to see a ready answer; it is 1 when
\* the run ended on a failed command, on the timeout or on a failed
\* deletion; and there is no exit status while the run goes on.
C7_ExitCode ==
    /\ (exit_code = 0) <=> (pc = "done")
    /\ pc = "done" =>
          /\ ~SomeCallFailed
          /\ "ready" \in seen
          /\ \A c \in OneShots : Count(log, c) = 1
    /\ pc = "exited" => (exit_code = 1 /\ (SomeCallFailed \/ PollRanOut))
    /\ (Terminated /\ (SomeCallFailed \/ PollRanOut)) => exit_code = 1
    /\ ~Terminated => exit_code = NoExit

C7_Witness ==
    /\ pc = "exited" /\ exit_code = 1
    /\ log[Len(log)] = Call("pip install pyyaml", env_name, 1)

\* C8: an existing config file is deleted before the scaffolding command
\* runs and a failed deletion ends the run with no scaffolding; with no
\* file at the path nothing is deleted and scaffolding comes next.
C8_DeleteBeforeScaffold ==
    /\ [][pc = "config_file" =>
            IF config_file \in files
            THEN /\ Len(log') = Len(log) + 1
                 /\ log'[Len(log')].cmd = "os.remove"
                 /\ log'[Len(log')].arg = config_file
                 /\ \/ pc' = "scaffold" /\ config_file \notin files'
                    \/ pc' = "exited" /\ exit_code' = 1
                              /\ log'[Len(log')].returncode # 0
            ELSE log' = log /\ pc' = "scaffold"]_vars
    /\ [][(Ran("diagrid dev scaffold")' /\ ~Ran("diagrid dev scaffold")) =>
            (pc = "scaffold" /\ config_file \notin files)]_vars
    /\ []((Ran("os.remove") /\ Ran("diagrid dev scaffold")) =>
            /\ IndexOf("os.remove") < IndexOf("diagrid dev scaffold")
            /\ log[IndexOf("os.remove")].returncode = 0)

C8_Witness ==
    /\ Ran("os.remove") /\ Ran("diagrid dev scaffold")
    /\ config_file = CustomConfig /\ config_file \notin files

\* C9 (its exit status): a run in which node or npm is missing ends with
\* exit status 1.
C9_MissingToolExitsOne ==
    (Terminated /\ installed # {"node", "npm"}) => exit_code = 1

\* C10 as stated: inside check_appid_status the attempt counter stays
\* within 1..max_attempts.
C10_AttemptWithinMax ==
    InPoll => attempt \in 1..max_attempts

\* C10: inside check_appid_status the attempt counter stays within
\* 1..max_attempts+1, it is at most max_attempts at every query and is
\* max_attempts+1 only once the loop has run out; every step leaves it
\* unchanged or adds exactly 1.
C10_AttemptBounds ==
    /\ [](InPoll =>
            /\ attempt \in 1..(max_attempts + 1)
            /\ attempt = max_attempts + 1 =>
                  (pc # "poll_sleep" /\ Queries = max_attempts))
    /\ [][attempt' = attempt \/ attempt' = attempt + 1]_vars
    /\ [][Queries' # Queries => attempt <= max_attempts]_vars

C10_Witness ==
    TimedOut /\ attempt = max_attempts + 1 /\ Queries = max_attempts

\* C11: last_status changes only in a step that queries, it always equals
\* the value of the last answer that had a status line (None before any),
\* so the timeout reports that value even when later answers had no
\* status line.
C11_LastStatusOnlyFromStatusLine ==
    /\ [](last_status = lastValue)
    /\ [][last_status' # last_status =>
            (Queries' = Queries + 1 /\ last_status' = status')]_vars
    /\ []((TimedOut /\ lastValue # None) => reported = lastValue)

C11_Witness ==
    /\ TimedOut /\ status = None /\ last_status = pending /\ reported = pending
    /\ seen = {"notready", "noline"}

\* C12: once a query has been made the poll is in Polling, Ready or
\* TimedOut and nowhere else, never in two of them, and it has made at most
\* max_attempts queries.
C12_EndsReadyOrTimedOut ==
    Queries > 0 =>
        /\ Queries <= max_attempts
        /\ \/ pc \in {"poll_query", "poll_sleep"} /\ ~PollReturned /\ ~TimedOut
           \/ PollReturned /\ ~TimedOut
           \/ TimedOut /\ ~PollReturned

\* C13: a poll that times out has taken as many delays as queries, 8 of
\* each, the last call before the timeout is the delay after the 8th query,
\* and every query but the one that returns is followed by a delay.
C13_DelayAfterEveryAttempt ==
    /\ [](TimedOut =>
            /\ Queries = 8 /\ Delays = 8
            /\ log[Len(log)].cmd = "time.sleep"
            /\ log[Len(log) - 1].cmd = "diagrid appid get")
    /\ [](pc = "poll_query" => Delays = Queries)
    /\ [][TimedOut' /\ ~TimedOut => (Delays = Queries /\ log' = log)]_vars

C13_Witness ==
    /\ TimedOut /\ Delays = 8 /\ Queries = 8
    /\ log[Len(log)].cmd = "time.sleep"

\* the place of each external call in the order of main's steps
Rank(cmd) ==
    CASE cmd = "diagrid project create" -> 1
      [] cmd = "diagrid project use"    -> 2
      [] cmd = "diagrid appid create"   -> 3
      [] cmd = "diagrid appid get"      -> 4
      [] cmd = "time.sleep"             -> 4
      [] cmd = "os.remove"              -> 5
      [] cmd = "diagrid dev scaffold"   -> 6
      [] cmd = "rm -rf"                 -> 7
      [] cmd = "python3 -m venv"        -> 8
      [] cmd = "pip install pyyaml"     -> 9
      [] cmd = "python scaffold.py"     -> 10

\* the step that must have run before a step of rank r
Before(r) ==
    CASE r \in {2, 3, 4} -> {r - 1}
      [] r \in {5, 6}    -> {4}
      [] r \in {7, 8}    -> {6}
      [] r \in {9, 10}   -> {r - 1}
      [] OTHER           -> {}

\* C14: the external calls are made in the order of main's steps, each step
\* once (the poll's queries and delays apart) and only after the step before
\* it has run with success; a call that failed is the last call of the run,
\* the run has ended with it, an ended run takes no further step, and the
\* record of calls only grows.
C14_FixedOrderStopAtFailure ==
    /\ [](\A i \in 1..(Len(log) - 1) :
              /\ log[i].returncode = 0
              /\ Rank(log[i].cmd) <= Rank(log[i + 1].cmd)
              /\ Rank(log[i].cmd) = Rank(log[i + 1].cmd) => Rank(log[i].cmd) = 4)
    /\ [](\A j \in 1..Len(log) : \A r \in Before(Rank(log[j].cmd)) :
            \E i \in 1..(j - 1) : Rank(log[i].cmd) = r)
    /\ [](\A j \in 1..Len(log) : Rank(log[j].cmd) > 4 => "ready" \in seen)
    /\ [](SomeCallFailed => pc = "exited")
    /\ [](PollRanOut => (pc = "poll_query" \/ TimedOut))
    /\ [][pc # "exited" /\ pc # "done"]_vars
    /\ [][log' = log \/ (Len(log') = Len(log) + 1 /\ SubSeq(log', 1, Len(log)) = log)]_vars

C14_Witness ==
    /\ pc = "exited" /\ Len(log) = 3
    /\ log[1] = Call("diagrid project create", prj_name, 0)
    /\ log[2] = Call("diagrid project use", prj_name, 0)
    /\ log[3] = Call("diagrid appid create", prj_name, 1)

\* C15: every status query names the project in which the App ID was
\* created.
C15_PollsTheProjectOfTheAppId ==
    \A i \in 1..Len(log) : \A j \in 1..Len(log) :
        (log[i].cmd = "diagrid appid create" /\ log[j].cmd = "diagrid appid get")
            => log[j].arg = log[i].arg

\* C16: once main has read its arguments, the path it checks and deletes
\* is the path exported as CONFIG_FILE, and a deleted file is the one the
\* companion script is given.
C16_DeletedPathIsExportedPath ==
    /\ pc # "main" => config_file = environ_config
    /\ \A i \in 1..Len(log) : \A j \in 1..Len(log) :
         (log[i].cmd = "os.remove" /\ log[j].cmd = "python scaffold.py")
             => log[j].arg = log[i].arg

starting == <<"s","t","a","r","t","i","n","g">>

\* C17: after each answered query the status is the value of the first
\* line of the answer that holds the marker, and None when no line holds
\* it; an answer whose first marker line is not ready does not end the poll,
\* whatever its later lines say.
C17_StatusFromFirstMarkerLine ==
    /\ lastKind = "noline" => status = None
    /\ lastKind \in {"ready", "notready"} => status = lastValue
    /\ lastKind \in {"notready", "noline"} =>
          (pc \in {"poll_sleep", "poll_query"} \/ TimedOut)
    /\ lastKind = "ready" => PollReturned

\* the answer was "Status: starting" followed by "Status: Ready"
C17_Witness ==
    /\ lastKind = "notready" /\ status = starting /\ last_status = starting
    /\ pc = "poll_sleep"

====
